---- MODULE Spec2Model ----
(***************************************************************************)
(* A model of skimage/draw/draw.py: ellipse, polygon_perimeter, set_color. *)
(*                                                                         *)
(* Real-valued inputs (centres, radii, vertices) are exact rationals with  *)
(* denominator 2: a name ending in 2 holds twice the value it stands for.  *)
(* Alpha values are rationals with denominator AlphaDen, and the pixel     *)
(* values of the image after set_color are kept as numerators over         *)
(* AlphaDen, so that the blend image*(1-alpha) + color*alpha is exact.     *)
(***************************************************************************)
EXTENDS Integers, Sequences, FiniteSets, TLC

VARIABLES
  op,        \* the operation called: "ellipse", "polygon_perimeter", "set_color"
  pc,        \* "call" before the operation has run, "done" after it
  ein,       \* ellipse: the arguments [r2, c2, yradius2, xradius2, shape]
  eout,      \* ellipse: the returned [rr, cc]
  pin,       \* polygon_perimeter: the arguments [cy2, cx2, shape, clip]
  pout,      \* polygon_perimeter: what the call did (see PolygonPerimeter)
  sin,       \* set_color: the arguments [shape, ndim, d, coords, color, alpha]
  img,       \* set_color: the image buffer, numerators over AlphaDen
  serr       \* set_color: "none" or the exception raised

vars == <<op, pc, ein, eout, pin, pout, sin, img, serr>>

\* shape=None, and the value of the variables of the operations not called.
None == <<>>
Idle == <<>>

Max(a, b) == IF a >= b THEN a ELSE b
Min(a, b) == IF a <= b THEN a ELSE b

\* np.floor and np.ceil of a value given in halves.
Floor2(n2) == n2 \div 2
Ceil2(n2) == -((-n2) \div 2)

(***************************************************************************)
(* ellipse                                                                 *)
(***************************************************************************)
MaxCenter2 == 4
MaxRadius2 == 4
MaxShape == 3

EllipseShapes == {None} \cup ((0..MaxShape) \X (0..MaxShape))

\* The comparison of line 22 taken as distances <= 1.
DistanceLe1(dr2, dc2, ry2, rx2) ==
  /\ ry2 # 0
  /\ rx2 # 0
  /\ dr2 * dr2 * rx2 * rx2 + dc2 * dc2 * ry2 * ry2 <= ry2 * ry2 * rx2 * rx2

\* distances < 1, with distances = (dr/ry)**2 + (dc/rx)**2 in IEEE arithmetic:
\* a zero radius gives inf or nan, which is never < 1.
DistanceLt1(dr2, dc2, ry2, rx2) ==
  /\ ry2 # 0
  /\ rx2 # 0
  /\ dr2 * dr2 * rx2 * rx2 + dc2 * dc2 * ry2 * ry2 < ry2 * ry2 * rx2 * rx2

\* np.ogrid[0:float(shape[0]), 0:float(shape[1])] followed by np.nonzero:
\* the grid points 0..shape-1 (none when an extent is <= 0) in row-major order.
ellipse_in_shape(shape, center, radiuses) ==
  LET h == Max(shape[1], 0)
      w == Max(shape[2], 0)
      grid == [k \in 1..(h * w) |-> <<(k - 1) \div w, (k - 1) % w>>]
      inside(p) == DistanceLt1(2 * p[1] - center[1], 2 * p[2] - center[2],
                               radiuses[1], radiuses[2])
  IN SelectSeq(grid, inside)

\* upper_left = np.maximum(upper_left, np.array([0, 0]))
ClampUpperLeft(upper_left, shape) ==
  IF shape # None
    THEN <<Max(upper_left[1], 0), Max(upper_left[2], 0)>>
    ELSE upper_left

\* The clamp of line 77 taken against shape instead of shape - 1.
ClampLowerRightOffByOne(lower_right, shape) ==
  IF shape # None
    THEN <<Min(lower_right[1], shape[1]), Min(lower_right[2], shape[2])>>
    ELSE lower_right

\* lower_right = np.minimum(lower_right, np.array(shape[:2]) - 1)
ClampLowerRight(lower_right, shape) ==
  IF shape # None
    THEN <<Min(lower_right[1], shape[1] - 1), Min(lower_right[2], shape[2] - 1)>>
    ELSE lower_right

ellipse(r2, c2, yradius2, xradius2, shape) ==
  LET upper_left == ClampUpperLeft(<<Ceil2(r2 - yradius2), Ceil2(c2 - xradius2)>>, shape)
      lower_right == ClampLowerRight(<<Floor2(r2 + yradius2), Floor2(c2 + xradius2)>>, shape)
      shifted_center == <<r2 - 2 * upper_left[1], c2 - 2 * upper_left[2]>>
      bounding_shape == <<lower_right[1] - upper_left[1] + 1,
                          lower_right[2] - upper_left[2] + 1>>
      pts == ellipse_in_shape(bounding_shape, shifted_center, <<yradius2, xradius2>>)
  IN [rr |-> [i \in 1..Len(pts) |-> pts[i][1] + upper_left[1]],
      cc |-> [i \in 1..Len(pts) |-> pts[i][2] + upper_left[2]]]

InitEllipse ==
  /\ op = "ellipse"
  /\ pc = "call"
  /\ ein \in [r2 : 0..MaxCenter2, c2 : 0..MaxCenter2,
              yradius2 : -1..MaxRadius2, xradius2 : -1..MaxRadius2,
              shape : EllipseShapes]
  /\ eout = Idle
  /\ pin = Idle /\ pout = Idle /\ sin = Idle /\ img = Idle /\ serr = Idle

Ellipse ==
  /\ pc = "call"
  /\ pc' = "done"
  /\ eout' = ellipse(ein.r2, ein.c2, ein.yradius2, ein.xradius2, ein.shape)
  /\ UNCHANGED <<op, ein, pin, pout, sin, img, serr>>

NextEllipse == Ellipse

SpecEllipse == InitEllipse /\ [][NextEllipse]_vars

\* The pairs (rr[i], cc[i]) of a coordinate set, as a set.
CoordSet(o) == {<<o.rr[i], o.cc[i]>> : i \in 1..Len(o.rr)}

\* Occurrences of the point (row, col) in a coordinate set.
Occurrences(o, row, col) == {i \in 1..Len(o.rr) : o.rr[i] = row /\ o.cc[i] = col}

\* ((row-r)/yradius)^2 + ((col-c)/xradius)^2 < 1 in exact arithmetic, for the
\* arguments a; undefined, and taken as false, for a zero radius.
StrictlyInside(a, row, col) ==
  /\ a.yradius2 * a.xradius2 # 0
  /\ (2 * row - a.r2) * (2 * row - a.r2) * (a.xradius2 * a.xradius2)
       + (2 * col - a.c2) * (2 * col - a.c2) * (a.yradius2 * a.yradius2)
     < (a.yradius2 * a.yradius2) * (a.xradius2 * a.xradius2)

OnBoundary(a, row, col) ==
  /\ a.yradius2 * a.xradius2 # 0
  /\ (2 * row - a.r2) * (2 * row - a.r2) * (a.xradius2 * a.xradius2)
       + (2 * col - a.c2) * (2 * col - a.c2) * (a.yradius2 * a.yradius2)
     = (a.yradius2 * a.yradius2) * (a.xradius2 * a.xradius2)

\* The integer points of [ceil(center - radii), floor(center + radii)].
BoxRows(a) == Ceil2(a.r2 - a.yradius2)..Floor2(a.r2 + a.yradius2)
BoxCols(a) == Ceil2(a.c2 - a.xradius2)..Floor2(a.c2 + a.xradius2)

EllipseDone == op = "ellipse" /\ pc = "done"

\* C1: without a shape, every returned (row, col) lies strictly inside the
\* ellipse, and every integer point of the bounding box that lies strictly
\* inside is returned exactly once; no point is returned twice.
C1_EllipseExact ==
  (EllipseDone /\ ein.shape = None) =>
    /\ Len(eout.rr) = Len(eout.cc)
    /\ \A i \in 1..Len(eout.rr) :
         /\ StrictlyInside(ein, eout.rr[i], eout.cc[i])
         /\ Occurrences(eout, eout.rr[i], eout.cc[i]) = {i}
    /\ \A row \in BoxRows(ein), col \in BoxCols(ein) :
         StrictlyInside(ein, row, col) => Cardinality(Occurrences(eout, row, col)) = 1

\* An ellipse without a shape that returns points and has a point of its
\* bounding box at distance exactly 1, which is left out.
C1_Witness ==
  /\ EllipseDone /\ ein.shape = None
  /\ Len(eout.rr) > 1
  /\ ein.yradius2 # ein.xradius2
  /\ \E row \in BoxRows(ein), col \in BoxCols(ein) :
       OnBoundary(ein, row, col) /\ Occurrences(eout, row, col) = {}

InShape(shape, row, col) ==
  0 <= row /\ row < shape[1] /\ 0 <= col /\ col < shape[2]

NoShapeResult(a) == ellipse(a.r2, a.c2, a.yradius2, a.xradius2, None)

ClampedBoxEmpty(a) ==
  \/ Max(Ceil2(a.r2 - a.yradius2), 0) > Min(Floor2(a.r2 + a.yradius2), a.shape[1] - 1)
  \/ Max(Ceil2(a.c2 - a.xradius2), 0) > Min(Floor2(a.c2 + a.xradius2), a.shape[2] - 1)

\* C2: with a shape, every returned coordinate lies in [0,shape[0]) x
\* [0,shape[1]), the returned set is the set returned without a shape cut to
\* that bound, and an empty clamped box gives two empty sequences.
C2_EllipseClamped ==
  (EllipseDone /\ ein.shape # None) =>
    /\ Len(eout.rr) = Len(eout.cc)
    /\ \A i \in 1..Len(eout.rr) : InShape(ein.shape, eout.rr[i], eout.cc[i])
    /\ CoordSet(eout) = {p \in CoordSet(NoShapeResult(ein)) : InShape(ein.shape, p[1], p[2])}
    /\ ClampedBoxEmpty(ein) => (eout.rr = <<>> /\ eout.cc = <<>>)

\* An ellipse lying entirely outside its shape: the clamped box is empty
\* although the ellipse has interior points.
C2_Witness ==
  /\ EllipseDone /\ ein.shape # None
  /\ ClampedBoxEmpty(ein)
  /\ ein.shape[1] > 0 /\ ein.shape[2] > 0
  /\ CoordSet(NoShapeResult(ein)) # {}
  /\ eout.rr = <<>>

\* An ellipse cut by its shape on the low and on the high side.
EllipseTruncated ==
  /\ EllipseDone /\ ein.shape # None
  /\ eout.rr # <<>>
  /\ \E p \in CoordSet(NoShapeResult(ein)) : p[1] < 0
  /\ \E p \in CoordSet(NoShapeResult(ein)) : p[2] >= ein.shape[2]

(***************************************************************************)
(* set_color                                                               *)
(***************************************************************************)
AlphaDen == 2
MaxLen == 2

\* Row and column values of the coordinates passed: below, inside and beyond
\* the images of ImgShapes.
CoordVals == {-1, 0, 1}
ImgShapes == {<<1, 2>>, <<2, 1>>, <<2, 2>>}
\* img.ndim and the size of the last axis of a 3D image (1 for a 2D image).
ImgKinds == {[ndim |-> 2, d |-> 1], [ndim |-> 3, d |-> 1], [ndim |-> 3, d |-> 2]}
Colors == {<<7>>, <<7, 9>>}
AlphaVals == 0..AlphaDen

SeqsUpTo(S, n) == UNION {[1..k -> S] : k \in 0..n}

Pixels(shape) == (0..(shape[1] - 1)) \X (0..(shape[2] - 1))

\* The images drawn: every pixel and channel holds a different value.
Image(shape, d) ==
  [p \in Pixels(shape) |-> [ch \in 1..d |-> (p[1] * shape[2] + p[2]) * d + ch]]

\* An image of values as an image of numerators over AlphaDen.
Scaled(image) ==
  [p \in DOMAIN image |-> [ch \in 1..Len(image[p]) |-> image[p][ch] * AlphaDen]]

\* _coords_inside_image(rr, cc, shape, val): the entries with 0 <= rr <
\* shape[0] and 0 <= cc < shape[1], in order, and val cut the same way.
coords_inside_image(rr, cc, shape, val) ==
  LET inside(i) == rr[i] >= 0 /\ rr[i] < shape[1] /\ cc[i] >= 0 /\ cc[i] < shape[2]
      keep == SelectSeq([i \in 1..Len(rr) |-> i], inside)
  IN [rr |-> [k \in 1..Len(keep) |-> rr[keep[k]]],
      cc |-> [k \in 1..Len(keep) |-> cc[keep[k]]],
      val |-> [k \in 1..Len(keep) |-> val[keep[k]]]]

\* The check of line 263 left out.
ColorMismatchUnchecked(d, color) == FALSE

\* if img.shape[-1] != color.shape[-1]
ColorMismatch(d, color) == d # Len(color)

\* alpha = np.ones_like(rr) * alpha for a scalar alpha
BroadcastAlpha(rr, alpha) ==
  IF alpha.scalar THEN [i \in 1..Len(rr) |-> alpha.v] ELSE alpha.v

\* Line 273 filtering the coordinates without alpha.
FilterCoordsOnly(rr, cc, shape, alpha) ==
  LET f == coords_inside_image(rr, cc, shape, alpha)
  IN [rr |-> f.rr, cc |-> f.cc, val |-> SubSeq(alpha, 1, Len(f.rr))]

\* Line 273 left out.
FilterNothing(rr, cc, shape, alpha) == [rr |-> rr, cc |-> cc, val |-> alpha]

\* rr, cc, alpha = _coords_inside_image(rr, cc, img.shape, val=alpha)
FilterCoords(rr, cc, shape, alpha) == coords_inside_image(rr, cc, shape, alpha)

\* numpy's reading of an index along an axis of length n: a negative index
\* counts from the end.
NumpyIndex(i, n) == IF i < 0 THEN i + n ELSE i

\* The blend with alpha and 1 - alpha exchanged.
BlendSwapped(v, c, a) == (v * a) \div AlphaDen + c * (AlphaDen - a)

\* vals + color for one channel, as a numerator over AlphaDen: v is the
\* pixel's numerator, c the colour, a the numerator of alpha.
Blend(v, c, a) == (v * (AlphaDen - a)) \div AlphaDen + c * a

\* color broadcast against the channels of a pixel.
ColorAt(color, ch) == IF Len(color) = 1 THEN color[1] ELSE color[ch]

\* The k-th blend reading the buffer as the earlier writes left it.
ReadPixelCurrent(orig, buf, p) == buf[p]

\* The pixel that vals = img[rr, cc] * (1 - alpha) reads for the k-th write:
\* all of img[rr, cc] is read before anything is written.
ReadPixel(orig, buf, p) == orig[p]

\* img[rr, cc] = vals + color: the writes k, k+1, ... in order, so that the
\* last write to a pixel stands.
RECURSIVE Scatter(_, _, _, _, _, _)
Scatter(buf, orig, shape, f, color, k) ==
  IF k > Len(f.rr) THEN buf
  ELSE LET p == <<NumpyIndex(f.rr[k], shape[1]), NumpyIndex(f.cc[k], shape[2])>>
           old == ReadPixel(orig, buf, p)
           new == [ch \in 1..Len(old) |-> Blend(old[ch], ColorAt(color, ch), f.val[k])]
       IN Scatter([buf EXCEPT ![p] = new], orig, shape, f, color, k + 1)

\* set_color(img, (rr, cc), color, alpha) on the buffer image: the buffer
\* after the call and the exception raised, if any.
set_color(image, shape, d, rr, cc, color, alpha) ==
  IF ColorMismatch(d, color)
    THEN [img |-> image, err |-> "ValueError"]
    ELSE LET f == FilterCoords(rr, cc, shape, BroadcastAlpha(rr, alpha))
             indexable == \A k \in 1..Len(f.rr) :
                            <<NumpyIndex(f.rr[k], shape[1]),
                              NumpyIndex(f.cc[k], shape[2])>> \in DOMAIN image
         IN IF indexable
              THEN [img |-> Scatter(image, image, shape, f, color, 1), err |-> "none"]
              ELSE [img |-> image, err |-> "IndexError"]

\* The calls drawn with n coordinates: alpha is a scalar or a sequence of n values.
SetColorArgs(n) ==
  [shape : ImgShapes, kind : ImgKinds,
   rr : [1..n -> CoordVals], cc : [1..n -> CoordVals],
   color : Colors,
   alpha : [scalar : {TRUE}, v : AlphaVals] \cup [scalar : {FALSE}, v : [1..n -> AlphaVals]]]

InitSetColor ==
  /\ op = "set_color"
  /\ pc = "call"
  /\ \E n \in 0..MaxLen : sin \in SetColorArgs(n)
  /\ img = Scaled(Image(sin.shape, sin.kind.d))
  /\ serr = "none"
  /\ ein = Idle /\ eout = Idle /\ pin = Idle /\ pout = Idle

SetColor ==
  /\ op = "set_color"
  /\ pc = "call"
  /\ pc' = "done"
  /\ LET res == set_color(img, sin.shape, sin.kind.d, sin.rr, sin.cc, sin.color, sin.alpha)
     IN img' = res.img /\ serr' = res.err
  /\ UNCHANGED <<op, ein, eout, pin, pout, sin>>

NextSetColor == SetColor

SpecSetColor == InitSetColor /\ [][NextSetColor]_vars

SetColorDone == op = "set_color" /\ pc = "done"

\* The image before the call, as values and as numerators over AlphaDen.
OrigImage == Image(sin.shape, sin.kind.d)
OrigBuffer == Scaled(OrigImage)

ColorMatches == Len(sin.color) = sin.kind.d

\* The alpha passed for the i-th coordinate, as a numerator over AlphaDen.
AlphaOf(i) == IF sin.alpha.scalar THEN sin.alpha.v ELSE sin.alpha.v[i]

CoordInBounds(i) == InShape(sin.shape, sin.rr[i], sin.cc[i])

\* The in-bounds entries of the coordinate set that name pixel p.
EntriesAt(p) == {i \in 1..Len(sin.rr) : CoordInBounds(i) /\ <<sin.rr[i], sin.cc[i]>> = p}

\* AlphaDen * (o*(1-alpha) + c*alpha) for alpha = a / AlphaDen.
Blended(o, c, a) == o * (AlphaDen - a) + c * a

\* C4 as stated: of two entries i < j naming the same pixel (and no other
\* entry naming it), the second blend is computed against the result of the
\* first: AlphaDen^2 * final = (o*(D-a1) + c*a1)*(D-a2) + c*a2*D.
C4_SequentialBlend ==
  (SetColorDone /\ ColorMatches) =>
    \A p \in Pixels(sin.shape) : \A i, j \in EntriesAt(p) :
      (i < j /\ EntriesAt(p) = {i, j}) =>
        \A ch \in 1..sin.kind.d :
          img[p][ch] * AlphaDen =
            Blended(OrigImage[p][ch], sin.color[ch], AlphaOf(i)) * (AlphaDen - AlphaOf(j))
              + sin.color[ch] * AlphaOf(j) * AlphaDen

\* C4 amended: of the entries naming the same pixel the last one stands, and
\* its blend is computed against the original pixel.
C4_LastWriteOnOriginal ==
  (SetColorDone /\ ColorMatches) =>
    \A p \in Pixels(sin.shape) : \A i, j \in EntriesAt(p) :
      (i < j /\ \A k \in EntriesAt(p) : k <= j) =>
        \A ch \in 1..sin.kind.d :
          img[p][ch] = Blended(OrigImage[p][ch], sin.color[ch], AlphaOf(j))

\* A pixel named twice, blended with two alphas strictly between 0 and 1.
C4_Witness ==
  /\ SetColorDone /\ ColorMatches /\ sin.kind.d = 2
  /\ \E p \in Pixels(sin.shape) : \E i, j \in EntriesAt(p) :
       /\ i < j /\ EntriesAt(p) = {i, j}
       /\ AlphaOf(i) \notin {0, AlphaDen} /\ AlphaOf(j) \notin {0, AlphaDen}
       /\ img[p] # OrigBuffer[p]

\* C5: with alpha=1 every pixel at an in-bounds coordinate equals color in
\* every channel; with alpha=0 the image is as before the call.
C5_OpaqueAndTransparent ==
  (SetColorDone /\ ColorMatches) =>
    /\ (\A i \in 1..Len(sin.rr) : AlphaOf(i) = AlphaDen) =>
         \A i \in 1..Len(sin.rr) : CoordInBounds(i) =>
           \A ch \in 1..sin.kind.d :
             img[<<sin.rr[i], sin.cc[i]>>][ch] = sin.color[ch] * AlphaDen
    /\ (\A i \in 1..Len(sin.rr) : AlphaOf(i) = 0) => img = OrigBuffer

\* A scalar alpha=1 call on a two-channel image that replaces a pixel.
C5_Witness ==
  /\ SetColorDone /\ ColorMatches /\ sin.kind.d = 2
  /\ sin.alpha.scalar /\ sin.alpha.v = AlphaDen
  /\ \E i \in 1..Len(sin.rr) :
       /\ CoordInBounds(i)
       /\ img[<<sin.rr[i], sin.cc[i]>>] = <<sin.color[1] * AlphaDen, sin.color[2] * AlphaDen>>
       /\ img[<<sin.rr[i], sin.cc[i]>>] # OrigBuffer[<<sin.rr[i], sin.cc[i]>>]

\* A scalar alpha=0 call on a 2D image with an in-bounds coordinate.
C5_TransparentReached ==
  /\ SetColorDone /\ ColorMatches /\ sin.kind.ndim = 2
  /\ sin.alpha.scalar /\ sin.alpha.v = 0
  /\ \E i \in 1..Len(sin.rr) : CoordInBounds(i)

\* C6: out-of-bounds coordinates raise nothing, and every pixel that no
\* in-bounds entry of the coordinate set names is as before the call.
C6_OutOfBoundsUntouched ==
  (SetColorDone /\ ColorMatches) =>
    /\ serr = "none"
    /\ \A p \in Pixels(sin.shape) : EntriesAt(p) = {} => img[p] = OrigBuffer[p]

\* A call with a negative coordinate, a coordinate beyond the image and an
\* in-bounds one, which changes a pixel and leaves another.
C6_Witness ==
  /\ SetColorDone /\ ColorMatches
  /\ \E i \in 1..Len(sin.rr) : sin.rr[i] < 0 \/ sin.cc[i] < 0
  /\ \E i \in 1..Len(sin.rr) : sin.rr[i] >= sin.shape[1] \/ sin.cc[i] >= sin.shape[2]
  /\ \E p \in Pixels(sin.shape) : img[p] # OrigBuffer[p]
  /\ \E p \in Pixels(sin.shape) : EntriesAt(p) = {} /\ img[p] = OrigBuffer[p]

\* C7: a color whose length is not the channel count raises the
\* shape-mismatch error and leaves every pixel as before the call.
C7_MismatchRaisesFirst ==
  (SetColorDone /\ ~ColorMatches) => (serr = "ValueError" /\ img = OrigBuffer)

\* A one-value color on a two-channel image with an in-bounds coordinate
\* and a non-zero alpha: the call raised.
C7_Witness ==
  /\ SetColorDone /\ sin.kind.d = 2 /\ Len(sin.color) = 1
  /\ \E i \in 1..Len(sin.rr) : CoordInBounds(i) /\ AlphaOf(i) > 0
  /\ serr = "ValueError"

\* C10: with a per-coordinate alpha, an in-bounds coordinate that occurs
\* once is blended with the alpha of its own position in the input.
C10_AlphaLockstep ==
  (SetColorDone /\ ColorMatches /\ ~sin.alpha.scalar) =>
    \A i \in 1..Len(sin.rr) :
      (CoordInBounds(i) /\ EntriesAt(<<sin.rr[i], sin.cc[i]>>) = {i}) =>
        \A ch \in 1..sin.kind.d :
          img[<<sin.rr[i], sin.cc[i]>>][ch] =
            Blended(OrigImage[<<sin.rr[i], sin.cc[i]>>][ch], sin.color[ch], sin.alpha.v[i])

\* An in-bounds coordinate preceded by an out-of-bounds one that came with a
\* different alpha.
C10_Witness ==
  /\ SetColorDone /\ ColorMatches /\ ~sin.alpha.scalar
  /\ \E i, j \in 1..Len(sin.rr) :
       /\ i < j /\ ~CoordInBounds(i) /\ CoordInBounds(j)
       /\ sin.alpha.v[i] # sin.alpha.v[j] /\ sin.alpha.v[j] > 0
       /\ img[<<sin.rr[j], sin.cc[j]>>] # OrigBuffer[<<sin.rr[j], sin.cc[j]>>]

(***************************************************************************)
(* polygon_perimeter                                                       *)
(***************************************************************************)
MaxVerts == 3
MaxClipLen == 3

\* Vertices drawn, as <<2*y, 2*x>>: (-1,-1), (0.5,0.5), (1,1), (2,0.5),
\* (0.5,2), (1.5,2.5).
PolyPoints2 == {<<-2, -2>>, <<1, 1>>, <<2, 2>>, <<4, 1>>, <<1, 4>>, <<3, 5>>}
PolyShapes == {None, <<2, 2>>, <<1, 2>>}

SeqMin(s) == CHOOSE x \in {s[i] : i \in DOMAIN s} : \A i \in DOMAIN s : x <= s[i]
SeqMax(s) == CHOOSE x \in {s[i] : i \in DOMAIN s} : \A i \in DOMAIN s : x >= s[i]

\* The check of line 185 inverted.
MustRaiseInverted(shape, clip) == clip /\ shape # None

\* if clip and shape is None: raise ValueError
MustRaise(shape, clip) == clip /\ shape = None

\* The clip box of line 187 taken as (0, 0, shape[0], shape[1]).
clip_box_whole_shape(cy2, cx2, shape, clip) ==
  IF clip
    THEN <<0, 0, 2 * shape[1], 2 * shape[2]>>
    ELSE <<SeqMin(cy2), SeqMin(cx2), SeqMax(cy2), SeqMax(cx2)>>

\* clip_box, in halves: (0, 0, shape[0]-1, shape[1]-1) when clipping, the
\* bounding box of the vertices otherwise.
clip_box(cy2, cx2, shape, clip) ==
  IF clip
    THEN <<0, 0, 2 * (shape[1] - 1), 2 * (shape[2] - 1)>>
    ELSE <<SeqMin(cy2), SeqMin(cx2), SeqMax(cy2), SeqMax(cx2)>>

InBox(box, y2, x2) == box[1] <= y2 /\ y2 <= box[3] /\ box[2] <= x2 /\ x2 <= box[4]

\* The points of the half-unit grid inside a clip box.
BoxPoints2(box) == (box[1]..box[3]) \X (box[2]..box[4])

\* polygon_clip(cy, cx, *clip_box): the vertex sequences it may return, as
\* sequences of <<2*y, 2*x>>.  A polygon inside the box comes back closed;
\* otherwise the result is some closed polygon (first vertex = last vertex)
\* with its vertices inside the box.
polygon_clip(cy2, cx2, box) ==
  IF \A i \in 1..Len(cy2) : InBox(box, cy2[i], cx2[i])
    THEN LET poly == [i \in 1..Len(cy2) |-> <<cy2[i], cx2[i]>>]
         IN {IF poly[1] = poly[Len(poly)] /\ Len(poly) > 1
               THEN poly ELSE Append(poly, poly[1])}
    ELSE UNION {{Append(q, q[1]) : q \in [1..k -> BoxPoints2(box)]} :
                  k \in 1..(MaxClipLen - 1)}

\* np.round of a value given in halves: halves go to the even neighbour.
Round2(n2) ==
  IF n2 % 2 = 0 THEN n2 \div 2
  ELSE IF (n2 \div 2) % 2 = 0 THEN n2 \div 2 ELSE (n2 \div 2) + 1

Abs(x) == IF x < 0 THEN -x ELSE x
Sign(x) == IF x > 0 THEN 1 ELSE -1

\* line(): the inner "while d >= 0" loop, giving <<y, d>>.
RECURSIVE LineWhile(_, _, _, _)
LineWhile(y, d, sy, dx) ==
  IF d >= 0 THEN LineWhile(y + sy, d - 2 * dx, sy, dx) ELSE <<y, d>>

\* line(): the iterations i, i+1, ..., dx-1 of the main loop.
RECURSIVE LineLoop(_, _, _, _, _)
LineLoop(i, x, y, d, st) ==
  IF i >= st.dx THEN <<>>
  ELSE LET w == LineWhile(y, d, st.sy, st.dx)
       IN <<IF st.steep THEN <<x, y>> ELSE <<y, x>>>>
            \o LineLoop(i + 1, x + st.sx, w[1], w[2] + 2 * st.dy, st)

\* line(y, x, y2, x2): the pixels of the Bresenham line, as <<row, col>>,
\* from (y, x) to (y2, x2) inclusive.
line(y, x, y2, x2) ==
  LET dx == Abs(x2 - x)
      dy == Abs(y2 - y)
      steep == dy > dx
      st == IF steep
              THEN [dx |-> dy, dy |-> dx, sx |-> Sign(y2 - y), sy |-> Sign(x2 - x),
                    steep |-> TRUE]
              ELSE [dx |-> dx, dy |-> dy, sx |-> Sign(x2 - x), sy |-> Sign(y2 - y),
                    steep |-> FALSE]
  IN LineLoop(0, IF steep THEN y ELSE x, IF steep THEN x ELSE y, 2 * st.dy - st.dx, st)
       \o <<(<<y2, x2>>)>>

\* The loop of line 201 stopping one segment early.
SegmentCountShort(n) == n - 2

\* for i in range(len(cy) - 1)
SegmentCount(n) == n - 1

\* The segments i, i+1, ... of the rounded vertices v, concatenated.
RECURSIVE Segments(_, _, _)
Segments(v, i, n) ==
  IF i > n THEN <<>>
  ELSE line(v[i][1], v[i][2], v[i + 1][1], v[i + 1][2]) \o Segments(v, i + 1, n)

\* polygon_perimeter after the clipper has returned clipped: rounding, line
\* tracing and the in-shape filter.
perimeter(clipped, shape) ==
  LET v == [i \in 1..Len(clipped) |-> <<Round2(clipped[i][1]), Round2(clipped[i][2])>>]
      n == Max(SegmentCount(Len(v)), 0)
      pts == Segments(v, 1, n)
      rr == [k \in 1..Len(pts) |-> pts[k][1]]
      cc == [k \in 1..Len(pts) |-> pts[k][2]]
      out == IF shape = None THEN [rr |-> rr, cc |-> cc]
             ELSE coords_inside_image(rr, cc, shape, rr)
  IN [err |-> "none", clipped |-> clipped, traced |-> [rr |-> rr, cc |-> cc],
      rr |-> out.rr, cc |-> out.cc, clip_calls |-> 1, line_calls |-> n]

Raised(e) ==
  [err |-> e, clipped |-> <<>>, traced |-> [rr |-> <<>>, cc |-> <<>>],
   rr |-> <<>>, cc |-> <<>>, clip_calls |-> 0, line_calls |-> 0]

InitPolygon ==
  /\ op = "polygon_perimeter"
  /\ pc = "call"
  /\ \E n \in 2..MaxVerts : \E poly \in [1..n -> PolyPoints2] :
       \E shape \in PolyShapes, clip \in BOOLEAN :
         pin = [cy2 |-> [i \in 1..n |-> poly[i][1]], cx2 |-> [i \in 1..n |-> poly[i][2]],
                shape |-> shape, clip |-> clip]
  /\ pout = Raised("none")
  /\ ein = Idle /\ eout = Idle /\ sin = Idle /\ img = Idle /\ serr = Idle

PolygonPerimeter ==
  /\ op = "polygon_perimeter"
  /\ pc = "call"
  /\ pc' = "done"
  /\ IF MustRaise(pin.shape, pin.clip)
       THEN pout' = Raised("ValueError")
       ELSE IF pin.clip /\ pin.shape = None
         \* shape[0] of None
         THEN pout' = Raised("TypeError")
         ELSE \E clipped \in polygon_clip(pin.cy2, pin.cx2,
                                          clip_box(pin.cy2, pin.cx2, pin.shape, pin.clip)) :
                pout' = perimeter(clipped, pin.shape)
  /\ UNCHANGED <<op, ein, eout, pin, sin, img, serr>>

NextPolygon == PolygonPerimeter

SpecPolygon == InitPolygon /\ [][NextPolygon]_vars

PolygonDone == op = "polygon_perimeter" /\ pc = "done"

\* The returned path is non-empty, ends on the pixel it starts on, and each
\* pixel is the same as, or a neighbour of, the one before it.
ClosedPath(o) ==
  /\ Len(o.rr) > 0
  /\ Len(o.rr) = Len(o.cc)
  /\ o.rr[Len(o.rr)] = o.rr[1] /\ o.cc[Len(o.cc)] = o.cc[1]
  /\ \A k \in 1..(Len(o.rr) - 1) :
       Abs(o.rr[k + 1] - o.rr[k]) <= 1 /\ Abs(o.cc[k + 1] - o.cc[k]) <= 1

\* C3 as stated: every call that returns, with any shape or none and clip
\* true or false, returns a non-empty closed connected path.
C3_AlwaysClosed ==
  (PolygonDone /\ pout.err = "none") => ClosedPath(pout)

\* C3 amended: the returned path is non-empty, closed and connected when no
\* shape is given or when clip is true.
C3_ClosedUnlessFiltered ==
  (PolygonDone /\ pout.err = "none" /\ (pin.shape = None \/ pin.clip)) => ClosedPath(pout)

\* A triangle traced without a shape: three segments, back at its start.
C3_Witness ==
  /\ PolygonDone /\ pout.err = "none" /\ pin.shape = None
  /\ pout.line_calls = 3
  /\ Len(pout.rr) > 6
  /\ Cardinality(CoordSet(pout)) > 4
  /\ pout.rr[Len(pout.rr)] = pout.rr[1] /\ pout.cc[Len(pout.cc)] = pout.cc[1]

\* C8: clip=true without a shape raises ValueError before the clipper or
\* the line rasterizer is called, and returns no coordinates.
C8_ClipNeedsShape ==
  (PolygonDone /\ pin.clip /\ pin.shape = None) =>
    /\ pout.err = "ValueError"
    /\ pout.clip_calls = 0 /\ pout.line_calls = 0
    /\ pout.rr = <<>> /\ pout.cc = <<>>

\* A three-vertex call with clip=true and no shape, which raised.
C8_Witness ==
  /\ PolygonDone /\ pin.clip /\ pin.shape = None
  /\ Len(pin.cy2) = 3
  /\ pout.err = "ValueError"

\* C9: with clip=true and a shape every traced pixel lies inside the shape,
\* so the filter returns the traced path whole, and the path ends on the
\* pixel it starts on.
C9_ClippedStaysInside ==
  (PolygonDone /\ pin.clip /\ pin.shape # None) =>
    /\ pout.err = "none"
    /\ \A k \in 1..Len(pout.traced.rr) :
         InShape(pin.shape, pout.traced.rr[k], pout.traced.cc[k])
    /\ pout.rr = pout.traced.rr /\ pout.cc = pout.traced.cc
    /\ Len(pout.rr) > 0
    /\ pout.rr[Len(pout.rr)] = pout.rr[1] /\ pout.cc[Len(pout.cc)] = pout.cc[1]

\* A polygon with a vertex outside the shape, clipped to it: the clipper
\* returned other vertices, and several pixels were traced.
C9_Witness ==
  /\ PolygonDone /\ pin.clip /\ pin.shape # None
  /\ \E i \in 1..Len(pin.cy2) :
       ~InBox(<<0, 0, 2 * (pin.shape[1] - 1), 2 * (pin.shape[2] - 1)>>, pin.cy2[i], pin.cx2[i])
  /\ Len(pout.clipped) = 3
  /\ Cardinality(CoordSet(pout)) > 1
  /\ pout.rr = pout.traced.rr

====
